---- MODULE Spec2Model ----
(***************************************************************************)
(* A model of legoworship (src/src/legoworship/legoworship.py): the Song   *)
(* and SongList classes, their sort / add / CSV / page / resource          *)
(* operations, and the pinyin title used as a sort key.                    *)
(*                                                                         *)
(* Text is modelled as Python models it: a str is a sequence of code       *)
(* points, compared lexicographically by code point.  None is the          *)
(* one-element sequence <<-1>>, which is no str.                           *)
(***************************************************************************)
EXTENDS Integers, Sequences, FiniteSets, TLC

VARIABLES
    cname,    \* SongList.name, per catalog variable
    clist,    \* SongList.songs, per catalog variable: a reference to a list object
    lists,    \* the list objects: reference -> sequence of Song
    file,     \* the CSV file from_csv reads: its name and its parsed lines
    outfile,  \* the CSV file export_csv wrote (<<>> before any export)
    fs,       \* the page directory: the kind of each path under it
    song,     \* the Song that pinyin_title and find_resources act on
    library,  \* the files os.walk(library) yields, in walk order
    ret       \* the last completed call: its arguments and its outcome

vars == <<cname, clist, lists, file, outfile, fs, song, library, ret>>

(***************************************************************************)
(* Bounds of the model.                                                    *)
(***************************************************************************)
MaxTitleLen == 4   \* longest title drawn for pinyin_title
MaxLen == 3        \* longest song list of a sorted catalog
MaxAddLen == 4     \* most songs in the list objects that add leaves
MaxRows == 2       \* most data lines of a CSV file
MaxFiles == 2      \* most files in a library
MaxResources == 2  \* most resources a song accumulates

(***************************************************************************)
(* Python values.                                                          *)
(***************************************************************************)
None == << -1 >>

Min(a, b) == IF a <= b THEN a ELSE b

\* str.__lt__: lexicographic by code point
StrLess(a, b) ==
    LET n == Min(Len(a), Len(b))
        d == {i \in 1..n : a[i] # b[i]}
    IN  IF d = {} THEN Len(a) < Len(b)
        ELSE LET i == CHOOSE k \in d : \A j \in d : k <= j
             IN  a[i] < b[i]

\* list.__lt__ on lists of str: the first differing item decides
ListLess(x, y) ==
    LET n == Min(Len(x), Len(y))
        d == {i \in 1..n : x[i] # y[i]}
    IN  IF d = {} THEN Len(x) < Len(y)
        ELSE LET i == CHOOSE k \in d : \A j \in d : k <= j
             IN  StrLess(x[i], y[i])

RECURSIVE Concat(_)
\* chain(*lists): the concatenation of a sequence of sequences
Concat(ss) ==
    IF ss = <<>> THEN <<>> ELSE Head(ss) \o Concat(Tail(ss))

Reverse(s) == [i \in 1..Len(s) |-> s[Len(s) + 1 - i]]

\* a in b, for str
IsSubstring(a, b) ==
    \E k \in 0..(Len(b) - Len(a)) : \A i \in 1..Len(a) : b[k + i] = a[i]

\* b.endswith(a), for str a
EndsWith(b, a) ==
    /\ Len(a) <= Len(b)
    /\ \A i \in 1..Len(a) : b[Len(b) - Len(a) + i] = a[i]

(***************************************************************************)
(* Characters.                                                             *)
(***************************************************************************)
IsUpper(c) == c >= 65 /\ c <= 90
IsLower(c) == c >= 97 /\ c <= 122
IsCased(c) == IsUpper(c) \/ IsLower(c)
ToUpper(c) == IF IsLower(c) THEN c - 32 ELSE c
ToLower(c) == IF IsUpper(c) THEN c + 32 ELSE c
\* pypinyin's RE_HANS: the CJK unified ideographs
IsHan(c) == c >= 19968 /\ c <= 40959

SPACE == <<32>>

\* str.title(): a cased character is upper-cased when the character before
\* it is not cased, and lower-cased when it is; the others are kept
StrTitle(s) ==
    [i \in 1..Len(s) |->
        IF ~IsCased(s[i]) THEN s[i]
        ELSE IF i > 1 /\ IsCased(s[i - 1]) THEN ToLower(s[i])
        ELSE ToUpper(s[i])]

RECURSIVE SplitFrom(_, _, _)
\* str.split(sep) for a one-character sep: every occurrence of sep ends a
\* segment, so adjacent separators give empty segments
SplitFrom(s, sep, cur) ==
    IF s = <<>> THEN <<cur>>
    ELSE IF Head(s) = sep[1] THEN <<cur>> \o SplitFrom(Tail(s), sep, <<>>)
    ELSE SplitFrom(Tail(s), sep, Append(cur, Head(s)))

Split(s, sep) == SplitFrom(s, sep, <<>>)

(***************************************************************************)
(* pypinyin.lazy_pinyin, as Song.pinyin_title uses it.                     *)
(***************************************************************************)
\* the readings (tone marks dropped) of the characters the model uses:
\* di yi er shou ce shi
PinyinOf(c) ==
    CASE c = 31532 -> <<100, 105>>
      [] c = 19968 -> <<121, 105>>
      [] c = 20108 -> <<101, 114>>
      [] c = 39318 -> <<115, 104, 111, 117>>
      [] c = 27979 -> <<99, 101>>
      [] c = 35797 -> <<115, 104, 105>>
      [] OTHER -> <<c>>

RECURSIVE SegFrom(_, _)
\* simple_seg: the maximal runs of Han and of non-Han characters
SegFrom(s, cur) ==
    IF s = <<>> THEN <<cur>>
    ELSE IF cur = <<>> \/ IsHan(Head(s)) = IsHan(cur[1])
         THEN SegFrom(Tail(s), Append(cur, Head(s)))
    ELSE <<cur>> \o SegFrom(Tail(s), <<Head(s)>>)

Seg(s) == SegFrom(s, <<>>)

\* one run to its tokens: a reading per Han character, a non-Han run as
\* it is, nothing for an empty run
ConvertRun(run) ==
    IF run = <<>> THEN <<>>
    ELSE IF IsHan(run[1]) THEN [i \in 1..Len(run) |-> PinyinOf(run[i])]
    ELSE <<run>>

LazyPinyin(segments) ==
    Concat([i \in 1..Len(segments) |->
        Concat([j \in 1..Len(Seg(segments[i])) |-> ConvertRun(Seg(segments[i])[j])])])

(***************************************************************************)
(* Song.                                                                   *)
(***************************************************************************)
\* an Optional[List[...]]: None, or a list
NoneList == [is_none |-> TRUE, items |-> <<>>]
ListOf(items) == [is_none |-> FALSE, items |-> items]

\* Song(title=t, original_key=k): the other attributes default to None
NewSong(t, k) ==
    [title |-> t, alternative_titles |-> NoneList, original_key |-> k,
     lyricist |-> None, composer |-> None, resources |-> NoneList]

\* the segments the title is cut into before transliteration
TitleSegments(t) == Split(t, SPACE)

PinyinTitle(s) ==
    LET py == LazyPinyin(TitleSegments(s.title))
    IN  [i \in 1..Len(py) |-> StrTitle(py[i])]

NoCall == [op |-> "none"]

(***************************************************************************)
(* Titles: pinyin_title on every title up to MaxTitleLen over a small      *)
(* alphabet: a B space tab apostrophe, and the Han character di.           *)
(***************************************************************************)
TitleAlphabet == {97, 66, 32, 9, 39, 31532}

TitlesUpTo(n) == UNION {[1..k -> TitleAlphabet] : k \in 0..n}

\* the parts of the state an operation under study does not touch
NoCatalogs == cname = <<>> /\ clist = <<>> /\ lists = <<>>
NoCsv == file = <<>> /\ outfile = <<>>
NoPages == fs = <<>>
NoLibrary == library = <<>>
NoSong == song = None

InitTitle ==
    /\ NoCatalogs /\ NoCsv /\ NoPages /\ NoLibrary
    /\ \E t \in TitlesUpTo(MaxTitleLen) : song = NewSong(t, None)
    /\ ret = NoCall

CallPinyinTitle ==
    /\ ret' = [op |-> "pinyin_title", value |-> PinyinTitle(song)]
    /\ UNCHANGED <<cname, clist, lists, file, outfile, fs, song, library>>

NextTitle == CallPinyinTitle

SpecTitle == InitTitle /\ [][NextTitle]_vars

(***************************************************************************)
(* C9.  The words of a title, as the claim counts them: the maximal runs   *)
(* of non-whitespace characters, each with its first letter upper-cased    *)
(* and the rest lower-cased.                                               *)
(***************************************************************************)
IsWhitespace(c) == c \in {32, 9}

\* Latin words with whitespace between them
IsLatinTitle(t) ==
    /\ t # <<>>
    /\ \A i \in 1..Len(t) : IsCased(t[i]) \/ IsWhitespace(t[i])
    /\ IsCased(t[1]) /\ IsCased(t[Len(t)])

RECURSIVE WordsFrom(_, _)
WordsFrom(t, cur) ==
    IF t = <<>> THEN (IF cur = <<>> THEN <<>> ELSE <<cur>>)
    ELSE IF IsWhitespace(Head(t))
         THEN (IF cur = <<>> THEN <<>> ELSE <<cur>>) \o WordsFrom(Tail(t), <<>>)
    ELSE WordsFrom(Tail(t), Append(cur, Head(t)))

Capitalized(w) ==
    [i \in 1..Len(w) |-> IF i = 1 THEN ToUpper(w[i]) ELSE ToLower(w[i])]

CapitalizedWords(t) ==
    LET ws == WordsFrom(t, <<>>)
    IN  [i \in 1..Len(ws) |-> Capitalized(ws[i])]

\* C9: for every title made only of Latin letters and whitespace,
\* pinyin_title returns one token per whitespace-delimited word, in order,
\* each with its first letter capitalized and the rest lower-case.
C9_LatinTitleTokens ==
    (ret.op = "pinyin_title" /\ IsLatinTitle(song.title))
        => ret.value = CapitalizedWords(song.title)

\* C9, where it fails: a title of two Latin words with a tab between them
C9_TabSeparatedTitle ==
    /\ ret.op = "pinyin_title"
    /\ song.title = <<97, 9, 66>>
    /\ ret.value = << <<65, 9, 66>> >>

(***************************************************************************)
(* SongList.                                                               *)
(***************************************************************************)
LEGACY_HEADER == <<"name", "key", "hymn_ref", "sheet_type">>
HEADER == <<"title", "original_key", "alternative_titles", "lyricist", "composer">>

Range(f) == {f[i] : i \in DOMAIN f}

\* the catalog variables of the program under study
Catalogs == {"c1", "c2", "c3"}
\* list objects: one more than there are catalogs, so that a new list can
\* always be built while every catalog still holds one
Refs == 1..(Cardinality(Catalogs) + 1)

\* self.songs
SongsOf(c) == lists[clist[c]]

\* _sort_by_pinyin_title / _sort_by_original_key
SortKey(by, s) == IF by = "title" THEN PinyinTitle(s) ELSE s.original_key

\* key(x) < key(y), for keys that Python can compare
KeyLess(by, x, y) ==
    IF by = "title" THEN ListLess(SortKey(by, x), SortKey(by, y))
    ELSE StrLess(SortKey(by, x), SortKey(by, y))

\* binary insertion, as list.sort does it: x goes before the first item
\* that it is less than, so after every item it is not less than
InsertSorted(sorted, x, by) ==
    LET after == {i \in 1..Len(sorted) : KeyLess(by, x, sorted[i])}
        p == IF after = {} THEN Len(sorted) + 1
             ELSE CHOOSE k \in after : \A j \in after : k <= j
    IN  SubSeq(sorted, 1, p - 1) \o <<x>> \o SubSeq(sorted, p, Len(sorted))

RECURSIVE StableSort(_, _)
StableSort(seq, by) ==
    IF seq = <<>> THEN <<>>
    ELSE InsertSorted(StableSort(SubSeq(seq, 1, Len(seq) - 1), by), seq[Len(seq)], by)

\* a descending sort written as the ascending one turned around: equal keys
\* come out in the opposite of their original order
SortedThenReversed(seq, by, desc) ==
    IF desc THEN Reverse(StableSort(seq, by)) ELSE StableSort(seq, by)

\* sorted(seq, key=sort_func, reverse=desc): with reverse the list is
\* reversed, sorted forward and reversed again
Sorted(seq, by, desc) ==
    IF desc THEN Reverse(StableSort(Reverse(seq), by)) ELSE StableSort(seq, by)

\* '<' between a None key and any key raises TypeError, and sorting two or
\* more items compares every item with another
SortRaisesTypeError(seq, by) ==
    /\ by # "title"
    /\ Len(seq) >= 2
    /\ \E i \in 1..Len(seq) : SortKey(by, seq[i]) = None

Raised(exc) == [raised |-> exc, value |-> None]
Returned(v) == [raised |-> "", value |-> v]

\* SongList.sort(by, desc, legacy) on a catalog of this name and songs
SortOutcome(name, songs, by, desc, legacy) ==
    IF (legacy /\ by \in Range(LEGACY_HEADER)) \/ (~legacy /\ by \in Range(HEADER))
    THEN IF by = "title" \/ by \in {"key", "original_key"}
         THEN IF SortRaisesTypeError(songs, by) THEN Raised("TypeError")
              ELSE Returned([name |-> name, songs |-> Sorted(songs, by, desc)])
         ELSE Raised("NotImplementedError")
    ELSE Raised("ValueError")

CallSort(c, by, desc, legacy) ==
    /\ ret' = [op |-> "sort", self |-> c, by |-> by, desc |-> desc,
               legacy |-> legacy, name |-> cname[c], songs |-> SongsOf(c),
               out |-> SortOutcome(cname[c], SongsOf(c), by, desc, legacy)]
    /\ UNCHANGED <<cname, clist, lists, file, outfile, fs, song, library>>

(***************************************************************************)
(* The songs of the catalogs under study: Han and Latin titles, two songs  *)
(* of one title, two titles of one pinyin key, keys that are missing,      *)
(* empty and shared.                                                       *)
(***************************************************************************)
SongPool ==
    << NewSong(<<31532, 19968, 39318>>, None),
       NewSong(<<31532, 20108, 39318>>, <<65>>),
       NewSong(<<31532, 19968, 39318>>, <<66>>),
       NewSong(<<66, 32, 97>>, <<65>>),
       NewSong(<<98, 32, 65>>, <<>>) >>

SeqsUpTo(S, n) == UNION {[1..k -> S] : k \in 0..n}

SortKeys == Range(HEADER) \cup Range(LEGACY_HEADER) \cup {"bpm"}

\* every catalog with a list object of its own
OwnLists == [c \in Catalogs |-> CASE c = "c1" -> 1 [] c = "c2" -> 2 [] OTHER -> 3]

InitSort ==
    /\ cname = [c \in Catalogs |-> IF c = "c2" THEN "songs.csv" ELSE "Test"]
    /\ clist = OwnLists
    /\ \E s1 \in SeqsUpTo(Range(SongPool), MaxLen) :
          lists = [r \in Refs |-> IF r = 1 THEN s1 ELSE <<>>]
    /\ NoCsv /\ NoPages /\ NoLibrary /\ NoSong
    /\ ret = NoCall

NextSort ==
    \E c \in Catalogs, by \in SortKeys, desc \in BOOLEAN, legacy \in BOOLEAN :
        CallSort(c, by, desc, legacy)

SpecSort == InitSort /\ [][NextSort]_vars

(***************************************************************************)
(* Claims about sort.  ret holds the receiver's name and songs as they     *)
(* were when sort was called, and what the call returned or raised.        *)
(***************************************************************************)
Count(seq, x) == Cardinality({i \in 1..Len(seq) : seq[i] = x})

IsPermutation(a, b) ==
    /\ Len(a) = Len(b)
    /\ \A x \in Range(a) \cup Range(b) : Count(a, x) = Count(b, x)

\* the header list of the selected format
HeaderOf(legacy) == IF legacy THEN LEGACY_HEADER ELSE HEADER

\* a sort call that passes sort's checks of by
SortAccepted(by, legacy) ==
    by \in Range(HeaderOf(legacy)) /\ by \in {"title", "original_key", "key"}

\* C1: every accepted sort call returns a new catalog with the receiver's
\* name whose songs are a permutation of the receiver's songs, and leaves
\* the receiver's name and songs as they were.
C1_SortReturnsPermutation ==
    (ret.op = "sort" /\ SortAccepted(ret.by, ret.legacy))
        => /\ ret.out.raised = ""
           /\ ret.out.value.name = ret.name
           /\ IsPermutation(ret.out.value.songs, ret.songs)
           /\ cname[ret.self] = ret.name
           /\ SongsOf(ret.self) = ret.songs

\* the total order of the claim: a missing key before every present key,
\* present keys by string comparison
TotalKeyLess(k1, k2) ==
    IF k1 = None THEN k2 # None
    ELSE IF k2 = None THEN FALSE
    ELSE StrLess(k1, k2)

\* C2: sorting by original_key (key in the legacy format) succeeds on every
\* catalog, also one mixing songs with and without a key, and orders the
\* songs by their keys with a missing key before every present key.
C2_SortByKeyTotalOrder ==
    (ret.op = "sort" /\ SortAccepted(ret.by, ret.legacy) /\ ret.by # "title")
        => /\ ret.out.raised = ""
           /\ LET r == ret.out.value.songs
              IN  \A i, j \in 1..Len(r) :
                    i < j => IF ret.desc
                             THEN ~TotalKeyLess(r[i].original_key, r[j].original_key)
                             ELSE ~TotalKeyLess(r[j].original_key, r[i].original_key)

\* C2, where it fails: a catalog of a song without a key and one with a key
C2_MixedKeysRaise ==
    /\ ret.op = "sort" /\ ret.by = "original_key" /\ ~ret.legacy
    /\ \E i, j \in 1..Len(ret.songs) :
          ret.songs[i].original_key = None /\ ret.songs[j].original_key # None
    /\ ret.out.raised = "TypeError"

\* the error kind the claim gives a sort call: "" is success
SortErrorKind(by, legacy) ==
    IF by \notin Range(HeaderOf(legacy)) THEN "ValueError"
    ELSE IF by \notin {"title", "original_key", "key"} THEN "NotImplementedError"
    ELSE ""

\* C6: by alone decides the outcome of sort: ValueError when by is not in
\* the header list of the selected format, NotImplementedError when it is
\* in it but is not title, original_key or key, and success otherwise.
C6_SortErrorKinds ==
    ret.op = "sort" => ret.out.raised = SortErrorKind(ret.by, ret.legacy)

\* the songs of seq whose pinyin title is k, in their order in seq
WithPinyinTitle(seq, k) ==
    LET Test(x) == PinyinTitle(x) = k
    IN  SelectSeq(seq, Test)

\* C7: sort(by=title) returns the songs with their pinyin titles in
\* non-decreasing order (non-increasing when descending), and the songs of
\* one pinyin title in the order they have in the receiver.
C7_SortByTitleStable ==
    (ret.op = "sort" /\ ret.by = "title" /\ ~ret.legacy)
        => /\ ret.out.raised = ""
           /\ LET r == ret.out.value.songs
              IN  /\ \A i \in 1..(Len(r) - 1) :
                        IF ret.desc
                        THEN ~ListLess(PinyinTitle(r[i]), PinyinTitle(r[i + 1]))
                        ELSE ~ListLess(PinyinTitle(r[i + 1]), PinyinTitle(r[i]))
                  /\ \A i \in 1..Len(ret.songs) :
                        WithPinyinTitle(r, PinyinTitle(ret.songs[i]))
                            = WithPinyinTitle(ret.songs, PinyinTitle(ret.songs[i]))
                  /\ Len(r) = Len(ret.songs)

\* C7's case: a descending sort by title that moves songs and meets two
\* different songs of one pinyin title
C7_DescendingTieSorted ==
    /\ ret.op = "sort" /\ ret.by = "title" /\ ~ret.legacy /\ ret.desc
    /\ ret.out.raised = ""
    /\ ret.out.value.songs # ret.songs
    /\ \E i, j \in 1..Len(ret.songs) :
          /\ ret.songs[i] # ret.songs[j]
          /\ ret.songs[i].title # ret.songs[j].title
          /\ PinyinTitle(ret.songs[i]) = PinyinTitle(ret.songs[j])

(***************************************************************************)
(* SongList: add.  A store is the catalogs' list references and the list   *)
(* objects; _add_song appends to the receiver's list object in place,      *)
(* _add_song_list binds the receiver to a new list object.                 *)
(***************************************************************************)
Store == [clist |-> clist, lists |-> lists]

SongsIn(st, c) == st.lists[st.clist[c]]

\* a list object no catalog holds
FreshRef(st) ==
    CHOOSE r \in Refs \ Range(st.clist) :
        \A q \in Refs \ Range(st.clist) : r <= q

\* list objects that no catalog holds are gone
Collected(st) ==
    [clist |-> st.clist,
     lists |-> [r \in Refs |-> IF r \in Range(st.clist) THEN st.lists[r] ELSE <<>>]]

\* the argument's songs put in front of the receiver's
PlusSwapped(mine, theirs) == theirs \o mine

\* self.songs + songlist.songs
Plus(mine, theirs) == mine \o theirs

\* _add_song: self.songs.append(song)
AddSong(st, c, s) ==
    [st EXCEPT !.lists[st.clist[c]] = Append(@, s)]

\* _add_song_list: self.songs = self.songs + songlist.songs
AddSongList(st, c, a) ==
    LET r == FreshRef(st)
    IN  Collected([clist |-> [st.clist EXCEPT ![c] = r],
                   lists |-> [st.lists EXCEPT ![r] = Plus(SongsIn(st, c), SongsIn(st, a))]])

\* what add is given: a Song, a SongList, or a value of another type
AddArgs(pool) ==
    [type : {"Song"}, song : pool]
        \cup [type : {"SongList"}, catalog : Catalogs]
        \cup [type : {"int"}]

\* add(songs): the store it leaves, and what it returns or raises
Add(st, c, x) ==
    IF x.type = "Song" THEN [store |-> AddSong(st, c, x.song), out |-> Returned(TRUE)]
    ELSE IF x.type = "SongList"
         THEN [store |-> AddSongList(st, c, x.catalog), out |-> Returned(TRUE)]
    ELSE [store |-> st, out |-> Raised("ValueError")]

\* the songs of the two catalogs used for add
AddPool == {SongPool[1], SongPool[2]}

CallAdd(c, x) ==
    LET r == Add(Store, c, x)
        held == Range(r.store.clist)
        total[n \in 0..Cardinality(Refs)] ==
            IF n = 0 THEN 0
            ELSE total[n - 1] + (IF n \in held THEN Len(r.store.lists[n]) ELSE 0)
    IN  /\ total[Cardinality(Refs)] <= MaxAddLen
        /\ clist' = r.store.clist
        /\ lists' = r.store.lists
        /\ ret' = [op |-> "add", self |-> c, arg |-> x, out |-> r.out]
        /\ UNCHANGED <<cname, file, outfile, fs, song, library>>

InitAdd ==
    /\ cname = [c \in Catalogs |-> IF c = "c2" THEN "songs.csv" ELSE "Test"]
    /\ \E shared \in BOOLEAN :
          clist = [OwnLists EXCEPT !["c2"] = IF shared THEN 1 ELSE 2]
    /\ \E init \in [Refs -> SeqsUpTo(AddPool, 1)] :
          lists = Collected([clist |-> clist, lists |-> init]).lists
    /\ NoCsv /\ NoPages /\ NoLibrary /\ NoSong
    /\ ret = NoCall

NextAdd == \E c \in Catalogs, x \in AddArgs(AddPool) : CallAdd(c, x)

SpecAdd == InitAdd /\ [][NextAdd]_vars

(***************************************************************************)
(* Claims about add.                                                       *)
(***************************************************************************)
RECURSIVE AddEach(_, _, _)
\* add(song) for each song of seq, in order
AddEach(st, c, seq) ==
    IF seq = <<>> THEN st
    ELSE AddEach(Add(st, c, [type |-> "Song", song |-> Head(seq)]).store, c, Tail(seq))

AddCatalog(st, c, a) == Add(st, c, [type |-> "SongList", catalog |-> a]).store

\* C8: from any catalog c, add(a) then add(b) for catalogs a and b other
\* than c leaves c with the songs that adding each song of a and then each
\* song of b by single-song adds leaves it with, namely c's songs followed
\* by a's and then b's, and leaves the songs of a and of b as they were.
C8_AddCatalogsAsSingleAdds ==
    \A c, a, b \in Catalogs :
        (a # c /\ b # c)
            => LET sa == SongsIn(Store, a)
                   sb == SongsIn(Store, b)
                   two == AddCatalog(AddCatalog(Store, c, a), c, b)
                   flat == AddEach(Store, c, sa \o sb)
               IN  /\ SongsIn(two, c) = SongsIn(flat, c)
                   /\ SongsIn(two, c) = SongsOf(c) \o sa \o sb
                   /\ SongsIn(two, a) = sa
                   /\ SongsIn(two, b) = sb

\* C8's case: a catalog with songs has been added to another catalog that
\* had a song, and a third catalog with a different song is there to add
C8_CatalogAdded ==
    /\ ret.op = "add" /\ ret.arg.type = "SongList" /\ ret.out.raised = ""
    /\ ret.arg.catalog # ret.self
    /\ Len(SongsOf(ret.arg.catalog)) = 1
    /\ Len(SongsOf(ret.self)) = 2
    /\ SongsOf(ret.self)[2] = SongsOf(ret.arg.catalog)[1]
    /\ \E b \in Catalogs \ {ret.self, ret.arg.catalog} :
          /\ SongsOf(b) # <<>>
          /\ SongsOf(b) # SongsOf(ret.arg.catalog)

(***************************************************************************)
(* SongList: from_csv and export_csv.  A CSV file is its name, its first   *)
(* line (the field names) and the lines after it, each parsed to cells.    *)
(***************************************************************************)
\* the field names without repeats, in order of first occurrence: the
\* keys of the dict that csv.DictReader builds for a row
Dedup(names) ==
    LET First(i) == \A j \in 1..(i - 1) : names[j] # names[i]
        idx == {i \in 1..Len(names) : First(i)}
        Rank(i) == Cardinality({j \in idx : j <= i})
    IN  [k \in 1..Cardinality(idx) |-> names[CHOOSE i \in idx : Rank(i) = k]]

\* csv.DictReader skips the lines that parse to no cells
DataRows(f) ==
    LET NotBlank(r) == r # <<>>
    IN  SelectSeq(f.rows, NotBlank)

\* list(row.keys()) != header: a row with more cells than there are field
\* names has the extra key None (restkey)
KeysDiffer(fieldnames, row, header) ==
    Dedup(fieldnames) # header \/ Len(row) > Len(fieldnames)

\* row[name]: the cell under the last field of that name, None (restval)
\* when the row is too short to have it
RowValue(fieldnames, row, name) ==
    LET at == {i \in 1..Len(fieldnames) : fieldnames[i] = name}
        last == CHOOSE i \in at : \A j \in at : j <= i
    IN  IF last <= Len(row) THEN row[last] ELSE None

\* the Song that from_csv builds from a row
RowSong(fieldnames, row, legacy) ==
    IF legacy
    THEN NewSong(RowValue(fieldnames, row, "name"), RowValue(fieldnames, row, "key"))
    ELSE NewSong(RowValue(fieldnames, row, "title"),
                 RowValue(fieldnames, row, "original_key"))

\* from_csv(csv_file_path, legacy): the header is compared when the first
\* data row is read, and only the rows after that one become songs
FromCsv(f, legacy) ==
    LET header == IF legacy THEN LEGACY_HEADER ELSE HEADER
        rows == DataRows(f)
        rest == IF rows = <<>> THEN <<>> ELSE Tail(rows)
    IN  IF rows # <<>> /\ KeysDiffer(f.header, rows[1], header)
        THEN Raised("ValueError")
        ELSE Returned([name |-> f.name,
                       songs |-> [i \in 1..Len(rest) |->
                                    RowSong(f.header, rest[i], legacy)]])

\* csv.DictWriter writes None as the empty string
Cell(v) == IF v = None THEN <<>> ELSE v

RECURSIVE Join(_, _)
\* sep.join(strs)
Join(sep, strs) ==
    IF strs = <<>> THEN <<>>
    ELSE IF Len(strs) = 1 THEN strs[1]
    ELSE strs[1] \o sep \o Join(sep, Tail(strs))

\* Song.alternative_title_string
AlternativeTitleString(s) ==
    Join(<<32, 47, 32>>, s.alternative_titles.items)

\* the row export_csv writes for a song, in the order of the field names
ExportRow(s, legacy) ==
    IF legacy
    THEN <<Cell(s.title), Cell(s.original_key), Cell(None), Cell(None)>>
    ELSE <<Cell(s.title), Cell(s.original_key), AlternativeTitleString(s),
           Cell(s.lyricist), Cell(s.composer)>>

\* export_csv(to, legacy): the file it writes
ExportCsv(to, songs, legacy) ==
    [name |-> to,
     header |-> IF legacy THEN LEGACY_HEADER ELSE HEADER,
     rows |-> [i \in 1..Len(songs) |-> ExportRow(songs[i], legacy)]]

\* c = SongList.from_csv(file, legacy)
CallFromCsv(c, legacy) ==
    LET out == FromCsv(file, legacy)
        r == FreshRef(Store)
    IN  /\ ret' = [op |-> "from_csv", target |-> c, legacy |-> legacy,
                   out |-> IF out.raised = "" THEN Returned(c) ELSE out]
        /\ IF out.raised = ""
           THEN /\ cname' = [cname EXCEPT ![c] = out.value.name]
                /\ clist' = [clist EXCEPT ![c] = r]
                /\ lists' = Collected([clist |-> clist',
                                       lists |-> [lists EXCEPT ![r] = out.value.songs]]).lists
           ELSE UNCHANGED <<cname, clist, lists>>
        /\ UNCHANGED <<file, outfile, fs, song, library>>

\* c.export_csv("out.csv", legacy)
CallExportCsv(c, legacy) ==
    /\ outfile' = ExportCsv("out.csv", SongsOf(c), legacy)
    /\ ret' = [op |-> "export_csv", self |-> c, legacy |-> legacy,
               out |-> Returned(TRUE)]
    /\ UNCHANGED <<cname, clist, lists, file, fs, song, library>>

\* the first lines of the files read: the two headers, the current header
\* with two names swapped, with a name missing and with a name twice
FileHeaders ==
    { HEADER, LEGACY_HEADER,
      <<"original_key", "title", "alternative_titles", "lyricist", "composer">>,
      <<"title", "original_key", "alternative_titles", "lyricist">>,
      <<"title", "title", "original_key", "alternative_titles", "lyricist", "composer">> }

\* the lines after it: rows of five and of four cells, a row that is too
\* short, one that is too long, and a blank line
FileRows ==
    { << <<65>>, <<67>>, <<>>, <<>>, <<>> >>,
      << <<66>>, <<>>, <<>>, <<>>, <<>> >>,
      << <<65>>, <<67>>, <<>>, <<>> >>,
      << <<66>> >>,
      << <<65>>, <<67>>, <<>>, <<>>, <<>>, <<68>> >>,
      <<>> }

InitCsv ==
    /\ cname = [c \in Catalogs |-> "Test"]
    /\ clist = OwnLists
    /\ lists = [r \in Refs |-> <<>>]
    /\ \E h \in FileHeaders, rows \in SeqsUpTo(FileRows, MaxRows) :
          file = [name |-> "songs.csv", header |-> h, rows |-> rows]
    /\ outfile = <<>>
    /\ NoPages /\ NoLibrary /\ NoSong
    /\ ret = NoCall

NextCsv ==
    \/ \E legacy \in BOOLEAN : CallFromCsv("c1", legacy)
    \/ \E legacy \in BOOLEAN : CallExportCsv("c1", legacy)

SpecCsv == InitCsv /\ [][NextCsv]_vars

(***************************************************************************)
(* Claims about from_csv and export_csv.                                   *)
(***************************************************************************)
\* a file with the expected header whose lines all have a cell per field
WellFormed(f, legacy) ==
    /\ f.header = HeaderOf(legacy)
    /\ \A i \in 1..Len(f.rows) : Len(f.rows[i]) = Len(f.header)

\* C3: from_csv of a well-formed file with the expected header and n data
\* rows returns a catalog of n songs in file order, song i with the title
\* and the key of row i, and export_csv of that catalog in the same format
\* writes the header of the file read and n data rows.
C3_ImportExportRoundTrip ==
    (ret.op = "from_csv" /\ WellFormed(file, ret.legacy))
        => /\ ret.out.raised = ""
           /\ LET songs == SongsOf(ret.target)
                  out == ExportCsv("out.csv", songs, ret.legacy)
              IN  /\ Len(songs) = Len(file.rows)
                  /\ \A i \in 1..Len(songs) :
                        /\ songs[i].title = file.rows[i][1]
                        /\ songs[i].original_key = file.rows[i][2]
                  /\ out.header = file.header
                  /\ Len(out.rows) = Len(file.rows)

\* C3, where it fails: a well-formed file of one data row read as no song
C3_FirstRowDropped ==
    /\ ret.op = "from_csv" /\ ~ret.legacy /\ WellFormed(file, FALSE)
    /\ Len(file.rows) = 1
    /\ ret.out.raised = ""
    /\ SongsOf(ret.target) = <<>>

\* C4: from_csv raises ValueError for every file whose header row is not
\* the header list of the chosen format, also one with no data rows, and
\* returns no catalog for it.
C4_HeaderMismatchRaises ==
    (ret.op = "from_csv" /\ file.header # HeaderOf(ret.legacy))
        => ret.out.raised = "ValueError"

\* C4, where it fails: a file of a wrong header and no data rows is read as
\* an empty catalog
C4_HeaderOnlyFileAccepted ==
    /\ ret.op = "from_csv" /\ file.header # HeaderOf(ret.legacy)
    /\ file.rows = <<>>
    /\ ret.out.raised = ""
    /\ cname[ret.target] = file.name

(***************************************************************************)
(* Song: check_page_exists and create_page.  The paths that matter are     *)
(* page_dir, page_dir/<title> and page_dir/<title>/.md; each is absent, a  *)
(* file or a directory, and only a directory has anything under it.        *)
(***************************************************************************)
Kinds == {"absent", "file", "dir"}

\* os.path.isdir(page_dir)
IsDir(f) == f.dir = "dir"

\* os.path.isfile(os.path.join(page_dir, title, ".md"))
IsPageFile(f, t) == f.dir = "dir" /\ f.title[t] = "dir" /\ f.md[t] = "file"

RaisedMsg(exc, msg) == [raised |-> exc, value |-> None, msg |-> msg]
ReturnedMsg(v) == [raised |-> "", value |-> v, msg |-> ""]

\* check_page_exists(page_dir)
CheckPageExists(f, t) ==
    IF ~IsDir(f) THEN RaisedMsg("ValueError", "is not a valid page directory")
    ELSE ReturnedMsg(IsPageFile(f, t))

\* os.mkdir(os.path.join(page_dir, title, ".md")), where page_dir is a
\* directory: what it raises, "" when it makes the directory
Mkdir(f, t) ==
    IF f.title[t] = "absent" THEN "FileNotFoundError"
    ELSE IF f.title[t] = "file" THEN "NotADirectoryError"
    ELSE IF f.md[t] # "absent" THEN "FileExistsError"
    ELSE ""

\* create_page(page_dir, quiet): the file system it leaves, and what it
\* returns or raises
CreatePage(f, t, quiet) ==
    LET exists == CheckPageExists(f, t)
    IN  IF exists.raised # "" THEN [fs |-> f, out |-> exists]
        ELSE IF exists.value
             THEN [fs |-> f,
                   out |-> IF quiet THEN ReturnedMsg(FALSE)
                           ELSE RaisedMsg("ValueError", "already exists")]
        ELSE IF Mkdir(f, t) # "" THEN [fs |-> f, out |-> RaisedMsg(Mkdir(f, t), "")]
        ELSE [fs |-> [f EXCEPT !.md[t] = "dir"], out |-> ReturnedMsg(TRUE)]

CallCheckPageExists(t) ==
    /\ ret' = [op |-> "check_page_exists", title |-> t, before |-> fs,
               out |-> CheckPageExists(fs, t)]
    /\ UNCHANGED <<cname, clist, lists, file, outfile, fs, song, library>>

CallCreatePage(t, quiet) ==
    LET r == CreatePage(fs, t, quiet)
    IN  /\ fs' = r.fs
        /\ ret' = [op |-> "create_page", title |-> t, quiet |-> quiet,
                   before |-> fs, out |-> r.out]
        /\ UNCHANGED <<cname, clist, lists, file, outfile, song, library>>

\* the titles of the songs whose pages are made
PageTitles == {SongPool[1].title, SongPool[2].title, SongPool[4].title}

\* the page directory as the program finds it: any of the paths may be
\* there as a file or a directory, but a directory named .md is only ever
\* made by create_page
InitPage ==
    /\ NoCatalogs /\ NoCsv /\ NoLibrary /\ NoSong
    /\ \E d \in Kinds, ts \in [PageTitles -> Kinds], ms \in [PageTitles -> {"absent", "file"}] :
          /\ d # "dir" => \A t \in PageTitles : ts[t] = "absent"
          /\ \A t \in PageTitles : ts[t] # "dir" => ms[t] = "absent"
          /\ fs = [dir |-> d, title |-> ts, md |-> ms]
    /\ ret = NoCall

NextPage ==
    \/ \E t \in PageTitles : CallCheckPageExists(t)
    \/ \E t \in PageTitles, quiet \in BOOLEAN : CallCreatePage(t, quiet)

SpecPage == InitPage /\ [][NextPage]_vars

(***************************************************************************)
(* Claims about create_page.                                               *)
(***************************************************************************)
\* the page of the song exists in the page directory
PageExists(f, t) == f.dir = "dir" /\ f.title[t] = "dir" /\ f.md[t] # "absent"

\* C5: create_page for a song whose page is already in the page directory,
\* also a page that an earlier create_page made, raises the "already
\* exists" ValueError when quiet is false, and returns False without
\* raising when quiet is true.
C5_CreateExistingPage ==
    (ret.op = "create_page" /\ PageExists(ret.before, ret.title))
        => IF ret.quiet
           THEN ret.out.raised = "" /\ ret.out.value = FALSE
           ELSE ret.out.raised = "ValueError" /\ ret.out.msg = "already exists"

\* C5, where it fails: the page that create_page made is a directory, which
\* the check for a file does not see, and making it again fails in mkdir
C5_SecondCreateFails ==
    /\ ret.op = "create_page" /\ ret.quiet
    /\ ret.before.md[ret.title] = "dir"
    /\ ret.out.raised = "FileExistsError"

(***************************************************************************)
(* Song: match_file and find_resources.  A library is the files that       *)
(* os.walk yields, each with the directory it is in.  A SongResource is    *)
(* its resource_type and location; its other attributes stay None.         *)
(***************************************************************************)
\* SongResource.EXTENSIONS: .png .pdf, and .mp3 .m4a .wav
EXTENSIONS ==
    [t \in {"sheet", "media"} |->
        IF t = "sheet"
        THEN << <<46, 112, 110, 103>>, <<46, 112, 100, 102>> >>
        ELSE << <<46, 109, 112, 51>>, <<46, 109, 52, 97>>, <<46, 119, 97, 118>> >>]

\* not extension, where extension is given as a condition but the type is
\* not looked at
UnsupportedWithExtension(resource_type, extension) ==
    ~(extension = None \/ extension = <<>>) /\ resource_type \notin DOMAIN EXTENSIONS

\* not extension and resource_type not in SongResource.EXTENSIONS: None and
\* the empty string both count as no extension
Unsupported(resource_type, extension) ==
    (extension = None \/ extension = <<>>) /\ resource_type \notin DOMAIN EXTENSIONS

\* os.path.join(root, file)
PathJoin(root, name) == root \o <<47>> \o name

NewSongResource(resource_type, location) ==
    [resource_type |-> resource_type, location |-> location]

\* match_file(filename, extensions): extensions is either [extension] or,
\* with no extension given, the one-item list [[".png", ".pdf"]] whose item
\* is itself a list, which str.endswith refuses with TypeError
MatchFile(title, filename, extension) ==
    IF ~IsSubstring(title, filename) THEN Returned(FALSE)
    ELSE IF extension = None \/ extension = <<>> THEN Raised("TypeError")
    ELSE Returned(EndsWith(filename, extension))

RECURSIVE Walk(_, _, _, _, _)
\* the loop over os.walk(library): the resources appended so far, and
\* what match_file raised if it raised
Walk(title, resource_type, extension, files, found) ==
    IF files = <<>> THEN [resources |-> found, raised |-> ""]
    ELSE LET m == MatchFile(title, Head(files).name, extension)
         IN  IF m.raised # "" THEN [resources |-> found, raised |-> m.raised]
             ELSE Walk(title, resource_type, extension, Tail(files),
                       IF m.value
                       THEN Append(found, NewSongResource(resource_type,
                                PathJoin(Head(files).root, Head(files).name)))
                       ELSE found)

\* find_resources(resource_type, library, extension): the song it leaves
\* and what it returns or raises.  SongResource.EXTENSIONS[resource_type] is
\* looked up only when no extension is given, and a dict raises KeyError
\* for a key it does not have
FindResources(s, resource_type, files, extension) ==
    IF Unsupported(resource_type, extension)
    THEN [song |-> s, out |-> Raised("ValueError")]
    ELSE LET resources == IF s.resources.is_none THEN <<>> ELSE s.resources.items
         IN  IF (extension = None \/ extension = <<>>)
                    /\ resource_type \notin DOMAIN EXTENSIONS
             THEN [song |-> [s EXCEPT !.resources = ListOf(resources)],
                   out |-> Raised("KeyError")]
             ELSE LET w == Walk(s.title, resource_type, extension, files, resources)
                  IN  [song |-> [s EXCEPT !.resources = ListOf(w.resources)],
                       out |-> IF w.raised # "" THEN Raised(w.raised)
                               ELSE Returned(w.resources # <<>>)]

CallFindResources(resource_type, extension) ==
    LET r == FindResources(song, resource_type, library, extension)
    IN  /\ Len(r.song.resources.items) <= MaxResources
        /\ song' = r.song
        /\ ret' = [op |-> "find_resources", resource_type |-> resource_type,
                   extension |-> extension, before |-> song.resources,
                   out |-> r.out]
        /\ UNCHANGED <<cname, clist, lists, file, outfile, fs, library>>

\* the files of the libraries searched: l/A.png, l/s/BA.pdf, l/B.mp3 and
\* l/s/A.wav
LibraryFiles ==
    { [root |-> <<108>>, name |-> <<65, 46, 112, 110, 103>>],
      [root |-> <<108, 47, 115>>, name |-> <<66, 65, 46, 112, 100, 102>>],
      [root |-> <<108>>, name |-> <<66, 46, 109, 112, 51>>],
      [root |-> <<108, 47, 115>>, name |-> <<65, 46, 119, 97, 118>>] }

\* a walk yields no file twice
Libraries ==
    {l \in SeqsUpTo(LibraryFiles, MaxFiles) :
        \A i, j \in 1..Len(l) : i # j => l[i] # l[j]}

ResourceTypes == {"sheet", "media", "video"}
\* no extension, the empty extension, .png and .pdf
Extensions == {None, <<>>, <<46, 112, 110, 103>>, <<46, 112, 100, 102>>}

InitResources ==
    /\ NoCatalogs /\ NoCsv /\ NoPages
    /\ \E t \in {<<65>>, <<66>>} : song = NewSong(t, None)
    /\ library \in Libraries
    /\ ret = NoCall

NextResources ==
    \E resource_type \in ResourceTypes, extension \in Extensions :
        CallFindResources(resource_type, extension)

SpecResources == InitResources /\ [][NextResources]_vars

(***************************************************************************)
(* Claims about find_resources.                                            *)
(***************************************************************************)
\* C10: find_resources with a resource type that is neither sheet nor
\* media and with no extension raises ValueError, so it does not return
\* False, and leaves the song's resources as they were.
C10_UnknownTypeRaises ==
    (/\ ret.op = "find_resources"
     /\ ret.resource_type \notin {"sheet", "media"}
     /\ ret.extension = None)
        => /\ ret.out.raised = "ValueError"
           /\ song.resources = ret.before

\* C10's case: the call made on a song that already has a resource, in a
\* library with a file of the song's title
C10_UnknownTypeCalled ==
    /\ ret.op = "find_resources"
    /\ ret.resource_type = "video"
    /\ ret.extension = None
    /\ ret.before.items # <<>>
    /\ \E i \in 1..Len(library) : IsSubstring(song.title, library[i].name)

\* the resources the default extensions of a type select: one for each
\* file whose name contains the title and ends with one of them, in the
\* order of the walk
DefaultMatches(title, resource_type, files) ==
    LET Hit(f) == /\ IsSubstring(title, f.name)
                  /\ \E i \in 1..Len(EXTENSIONS[resource_type]) :
                        EndsWith(f.name, EXTENSIONS[resource_type][i])
        hits == SelectSeq(files, Hit)
    IN  [i \in 1..Len(hits) |->
            NewSongResource(resource_type, PathJoin(hits[i].root, hits[i].name))]

\* C11: find_resources with resource type sheet or media and no extension
\* completes, and leaves the song's resources equal to the resources it
\* had followed by one new SongResource (of that type, located at the full
\* path) for each file of the library whose name contains the title and
\* ends with a default extension of the type; nothing is removed or
\* replaced, so a repeated call appends the same resources again.
C11_DefaultExtensionsAppend ==
    (/\ ret.op = "find_resources"
     /\ ret.resource_type \in {"sheet", "media"}
     /\ ret.extension = None)
        => /\ ret.out.raised = ""
           /\ ~song.resources.is_none
           /\ song.resources.items
                = ret.before.items
                    \o DefaultMatches(song.title, ret.resource_type, library)

\* C11's case: the call for sheets with no extension, in a library that
\* has a sheet of the song's title, stopped by TypeError with nothing
\* appended
C11_DefaultExtensionsRaise ==
    /\ ret.op = "find_resources"
    /\ ret.resource_type = "sheet"
    /\ ret.extension = None
    /\ DefaultMatches(song.title, "sheet", library) # <<>>
    /\ ret.out.raised = "TypeError"
    /\ song.resources.items = ret.before.items

====
